---- MODULE Spec2Model ----
(***************************************************************************)
(* Configuration resolution (resolveConfig, configFromCLIOptions,          *)
(* loadConfig, findFreePort, createUserDataDir, mergeConfig) and tool      *)
(* selection (createServer) of playwright-mcp.                             *)
(*                                                                         *)
(* JavaScript values are records tagged with their type, so that an own    *)
(* property whose value is undefined is distinct from an absent property:  *)
(* object spread copies the former and skips the latter.                   *)
(*   strings     are TLA+ strings,                                         *)
(*   file paths  are sequences of path segments (path.join concatenates),  *)
(*   the --caps  option is a sequence of lexemes (words, "," and " "), so  *)
(*               that split(',') and trim() are computed, not assumed.     *)
(***************************************************************************)
EXTENDS Integers, Sequences, FiniteSets, TLC

VARIABLES
  process,     \* [platform, env]: process.platform and process.env, fixed at start
  dirs,        \* the directories that exist on the filesystem (paths)
  ports,       \* how many ephemeral ports findFreePort has obtained so far
  call,        \* the last completed call: its operation, arguments and result
  profileLog   \* the completed direct calls of createUserDataDir, in order

vars == <<process, dirs, ports, call, profileLog>>

-----------------------------------------------------------------------------
(* JavaScript values *)

Undefined == [type |-> "undefined"]

Null == [type |-> "null"]

Bool(b) == [type |-> "boolean", bool |-> b]

Str(s) == [type |-> "string", str |-> s]

Num(n) == [type |-> "number", num |-> n]

\* a string that holds a file path, kept as its sequence of segments
Path(p) == [type |-> "string", path |-> p]

\* a string kept as its sequence of lexemes (the value of --caps)
Caps(l) == [type |-> "string", lexemes |-> l]

Arr(s) == [type |-> "array", items |-> s]

Obj(p) == [type |-> "object", props |-> p]

NoProps == [k \in {} |-> Undefined]

IsObject(v) == v.type = "object"

\* o.k and o?.k on a value that is an object or undefined
Get(o, k) == IF IsObject(o) /\ k \in DOMAIN o.props THEN o.props[k] ELSE Undefined

\* k in o (own property), also when its value is undefined
Has(o, k) == IsObject(o) /\ k \in DOMAIN o.props

\* ...v inside an object literal: the own properties of an object, undefined-valued
\* ones included; nothing for undefined and null
Spread(v) == IF IsObject(v) THEN v.props ELSE NoProps

\* two groups of properties of one object literal: the later one wins
Assign(a, b) == [k \in DOMAIN a \cup DOMAIN b |-> IF k \in DOMAIN b THEN b[k] ELSE a[k]]

\* an object literal { ...parts[1], ...parts[2], ... }
RECURSIVE ObjectLiteral(_)
ObjectLiteral(parts) ==
  IF parts = <<>> THEN NoProps
  ELSE Assign(ObjectLiteral(SubSeq(parts, 1, Len(parts) - 1)), parts[Len(parts)])

\* !!v and the condition of ?: and if
Truthy(v) ==
  CASE v.type = "undefined" -> FALSE
    [] v.type = "null" -> FALSE
    [] v.type = "boolean" -> v.bool
    [] v.type = "string" -> v \notin {Str(""), Path(<<>>), Caps(<<>>)}
    [] v.type = "number" -> v.num # 0
    [] OTHER -> TRUE

\* a ?? b
Nullish(v) == v.type \in {"undefined", "null"}

-----------------------------------------------------------------------------
(* mergeConfig *)

\* the marker spread before the inputs, so that an input can override it
mergeConfig_markerFirst(base, overrides) ==
  LET browser == Obj(ObjectLiteral(<<
        Spread(Get(base, "browser")),
        Spread(Get(overrides, "browser")),
        [launchOptions |-> Obj(ObjectLiteral(<<
            [assistantMode |-> Bool(TRUE)],
            Spread(Get(Get(base, "browser"), "launchOptions")),
            Spread(Get(Get(overrides, "browser"), "launchOptions")) >>))],
        [contextOptions |-> Obj(ObjectLiteral(<<
            Spread(Get(Get(base, "browser"), "contextOptions")),
            Spread(Get(Get(overrides, "browser"), "contextOptions")) >>))] >>))
  IN Obj(ObjectLiteral(<< Spread(base), Spread(overrides), [browser |-> browser] >>))

mergeConfig(base, overrides) ==
  LET browser == Obj(ObjectLiteral(<<
        Spread(Get(base, "browser")),
        Spread(Get(overrides, "browser")),
        [launchOptions |-> Obj(ObjectLiteral(<<
            Spread(Get(Get(base, "browser"), "launchOptions")),
            Spread(Get(Get(overrides, "browser"), "launchOptions")),
            [assistantMode |-> Bool(TRUE)] >>))],
        [contextOptions |-> Obj(ObjectLiteral(<<
            Spread(Get(Get(base, "browser"), "contextOptions")),
            Spread(Get(Get(overrides, "browser"), "contextOptions")) >>))] >>))
  IN Obj(ObjectLiteral(<< Spread(base), Spread(overrides), [browser |-> browser] >>))

-----------------------------------------------------------------------------
(* results of the async functions: a value, or a thrown error *)

Ok(v) == [status |-> "ok", value |-> v]

Throw(e) == [status |-> "error", error |-> e]

-----------------------------------------------------------------------------
(* the host: os and process *)

homedir == <<"home", "user">>

tmpdir == <<"tmp">>

\* the hosts the process is started on: platform and the environment variables read
Environments ==
  { [platform |-> "linux",
     env |-> [XDG_CACHE_HOME |-> Undefined, LOCALAPPDATA |-> Undefined, DISPLAY |-> Undefined]],
    [platform |-> "linux",
     env |-> [XDG_CACHE_HOME |-> Path(<<"xdg">>), LOCALAPPDATA |-> Undefined, DISPLAY |-> Str(":0")]],
    [platform |-> "darwin",
     env |-> [XDG_CACHE_HOME |-> Undefined, LOCALAPPDATA |-> Undefined, DISPLAY |-> Undefined]],
    [platform |-> "win32",
     env |-> [XDG_CACHE_HOME |-> Undefined, LOCALAPPDATA |-> Path(<<"C:", "LocalAppData">>), DISPLAY |-> Undefined]],
    [platform |-> "win32",
     env |-> [XDG_CACHE_HOME |-> Undefined, LOCALAPPDATA |-> Undefined, DISPLAY |-> Undefined]],
    [platform |-> "freebsd",
     env |-> [XDG_CACHE_HOME |-> Undefined, LOCALAPPDATA |-> Undefined, DISPLAY |-> Undefined]] }

\* path.join of two paths
PathJoin(a, b) == a \o b

\* a path and all its ancestors
Ancestors(p) == { SubSeq(p, 1, n) : n \in 1..Len(p) }

\* fs.promises.mkdir(path) without { recursive: true }: EEXIST on an existing directory
mkdir_notRecursive(path, ioOk) ==
  IF path \in dirs THEN Throw("EEXIST")
  ELSE IF ioOk THEN [status |-> "ok", dirs |-> dirs \cup Ancestors(path)]
  ELSE Throw("EACCES")

\* fs.promises.mkdir(path, { recursive: true }): an existing directory is no error;
\* ioOk is whether the filesystem lets a missing directory be created. A failing
\* call is taken to create nothing (the ancestors it may leave behind are not kept).
mkdir(path, ioOk) ==
  IF path \in dirs THEN [status |-> "ok", dirs |-> dirs]
  ELSE IF ioOk THEN [status |-> "ok", dirs |-> dirs \cup Ancestors(path)]
  ELSE Throw("EACCES")

-----------------------------------------------------------------------------
(* defaultConfig *)

defaultConfig ==
  Obj([browser |-> Obj([
         browserName |-> Str("chromium"),
         userDataDir |-> Path(tmpdir),
         launchOptions |-> Obj([
           channel |-> Str("chrome"),
           headless |-> Bool(process.platform = "linux" /\ ~Truthy(process.env.DISPLAY))]),
         contextOptions |-> Obj([viewport |-> Null])])])

-----------------------------------------------------------------------------
(* findFreePort, loadConfig, createUserDataDir *)

\* the ports the operating system may hand out for listen(0)
EphemeralPorts == {49152}

\* what listen(0) can do: assign a port, or raise 'error'
ListenOutcomes == { Ok(Num(p)) : p \in EphemeralPorts } \cup { Throw("EADDRNOTAVAIL") }

findFreePort(listen) ==
  IF listen.status = "ok"
  THEN [status |-> "ok", value |-> listen.value, ports |-> ports + 1]
  ELSE Throw(listen.error)

\* the files a --config path can name: no file, text that is no JSON, JSON documents
FileLaunch ==
  Obj([browser |-> Obj([
         launchOptions |-> Obj([
           headless |-> Bool(TRUE),
           executablePath |-> Path(<<"opt", "file-chrome">>),
           assistantMode |-> Bool(FALSE)]),
         contextOptions |-> Obj([viewport |-> Obj([width |-> Num(800), height |-> Num(600)])])])])

FileTop ==
  Obj([browser |-> Obj([
         browserName |-> Str("firefox"),
         userDataDir |-> Path(<<"file-profile">>),
         cdpEndpoint |-> Str("ws://file")]),
       capabilities |-> Arr(<<Str("pdf")>>),
       vision |-> Bool(TRUE),
       outputDir |-> Path(<<"out">>)])

Files ==
  [ p \in {<<"missing.json">>, <<"broken.json">>, <<"null.json">>, <<"launch.json">>, <<"top.json">>} |->
      CASE p = <<"missing.json">> -> [kind |-> "absent"]
        [] p = <<"broken.json">> -> [kind |-> "text"]
        [] p = <<"null.json">> -> [kind |-> "json", value |-> Null]
        [] p = <<"launch.json">> -> [kind |-> "json", value |-> FileLaunch]
        [] p = <<"top.json">> -> [kind |-> "json", value |-> FileTop] ]

loadConfig(configFile) ==
  IF ~Truthy(configFile) THEN Ok(Obj(NoProps))
  ELSE LET file == Files[configFile.path]
       IN CASE file.kind = "absent" -> Throw("Failed to load config file: ENOENT")
            [] file.kind = "text" -> Throw("Failed to load config file: SyntaxError")
            [] OTHER -> Ok(file.value)

\* the name given to the profile directory
ProfileName(options) ==
  LET key == IF Nullish(options.channel) THEN options.browserName ELSE options.channel
  IN "mcp-" \o key.str \o "-profile"

\* the platform's cache directory; <<>> stands for "none" on an unsupported platform
cacheDirectory ==
  CASE process.platform = "linux" ->
         IF Truthy(process.env.XDG_CACHE_HOME) THEN process.env.XDG_CACHE_HOME.path
         ELSE PathJoin(homedir, <<".cache">>)
    [] process.platform = "darwin" -> PathJoin(homedir, <<"Library", "Caches">>)
    [] process.platform = "win32" ->
         IF Truthy(process.env.LOCALAPPDATA) THEN process.env.LOCALAPPDATA.path
         ELSE PathJoin(homedir, <<"AppData", "Local">>)
    [] OTHER -> <<>>

\* the directory is named but never created
createUserDataDir_noMkdir(options, ioOk) ==
  LET result == PathJoin(cacheDirectory, <<"ms-playwright", ProfileName(options)>>)
  IN IF process.platform \notin {"linux", "darwin", "win32"}
     THEN Throw("Unsupported platform: " \o process.platform)
     ELSE [status |-> "ok", value |-> Path(result), dirs |-> dirs]

createUserDataDir(options, ioOk) ==
  LET result == PathJoin(cacheDirectory, <<"ms-playwright", ProfileName(options)>>)
      made == mkdir(result, ioOk)
  IN IF process.platform \notin {"linux", "darwin", "win32"}
     THEN Throw("Unsupported platform: " \o process.platform)
     ELSE IF made.status = "error" THEN Throw(made.error)
     ELSE [status |-> "ok", value |-> Path(result), dirs |-> made.dirs]

-----------------------------------------------------------------------------
(* configFromCLIOptions *)

\* the index of the first separator in s, or 0
RECURSIVE IndexOf(_, _, _)
IndexOf(s, sep, from) ==
  IF from > Len(s) THEN 0
  ELSE IF s[from] = sep THEN from
  ELSE IndexOf(s, sep, from + 1)

\* String.prototype.split(sep): the pieces between the separators, empty ones kept
RECURSIVE Split(_, _)
Split(s, sep) ==
  LET i == IndexOf(s, sep, 1)
  IN IF i = 0 THEN <<s>>
     ELSE <<SubSeq(s, 1, i - 1)>> \o Split(SubSeq(s, i + 1, Len(s)), sep)

\* String.prototype.trim(): leading and trailing white space removed
RECURSIVE Trim(_)
Trim(s) ==
  IF s = <<>> THEN s
  ELSE IF s[1] = " " THEN Trim(Tail(s))
  ELSE IF s[Len(s)] = " " THEN Trim(SubSeq(s, 1, Len(s) - 1))
  ELSE s

\* the string a sequence of lexemes spells
RECURSIVE Spell(_)
Spell(s) == IF s = <<>> THEN "" ELSE s[1] \o Spell(Tail(s))

\* cliOptions.caps?.split(',').map(c => c.trim())
ParseCaps(caps) ==
  IF Nullish(caps) THEN Undefined
  ELSE LET pieces == Split(caps.lexemes, ",")
       IN Arr([i \in 1..Len(pieces) |-> Str(Spell(Trim(pieces[i])))])

\* playwright's device presets: devices[name], undefined for an unknown name
devices(name) ==
  IF name = Str("iPhone 15")
  THEN Obj([viewport |-> Obj([width |-> Num(393), height |-> Num(659)]), isMobile |-> Bool(TRUE)])
  ELSE Undefined

ChromiumChannels ==
  {"chrome", "chrome-beta", "chrome-canary", "chrome-dev", "chromium",
   "msedge", "msedge-beta", "msedge-canary", "msedge-dev"}

\* the default branch hands the token on as the browser name
BrowserOf_tokenAsName(browser) ==
  CASE browser.type = "string" /\ browser.str \in ChromiumChannels ->
         [browserName |-> Str("chromium"), channel |-> browser]
    [] browser = Str("firefox") -> [browserName |-> Str("firefox"), channel |-> Undefined]
    [] browser = Str("webkit") -> [browserName |-> Str("webkit"), channel |-> Undefined]
    [] OTHER -> [browserName |-> browser, channel |-> Str("chrome")]

\* the switch on cliOptions.browser
BrowserOf(browser) ==
  CASE browser.type = "string" /\ browser.str \in ChromiumChannels ->
         [browserName |-> Str("chromium"), channel |-> browser]
    [] browser = Str("firefox") -> [browserName |-> Str("firefox"), channel |-> Undefined]
    [] browser = Str("webkit") -> [browserName |-> Str("webkit"), channel |-> Undefined]
    [] OTHER -> [browserName |-> Str("chromium"), channel |-> Str("chrome")]

\* a port is reserved whatever the browser is
ReservesPort_always(browserName) == TRUE

\* if (browserName === 'chromium')
ReservesPort(browserName) == browserName = Str("chromium")

\* io = [listen, mkdir]: what the operating system does for listen(0) and for mkdir
configFromCLIOptions(cliOptions, io) ==
  LET b == BrowserOf(cliOptions.browser)
      launchOptions == [channel |-> b.channel,
                        executablePath |-> cliOptions.executablePath,
                        headless |-> cliOptions.headless]
      port == IF ReservesPort(b.browserName) THEN findFreePort(io.listen)
              ELSE [status |-> "ok", value |-> Undefined, ports |-> ports]
      withPort == IF ReservesPort(b.browserName)
                  THEN Assign(launchOptions, [webSocketPort |-> port.value])
                  ELSE launchOptions
      contextOptions == IF Truthy(cliOptions.device) THEN devices(cliOptions.device) ELSE Undefined
      dir == IF Nullish(cliOptions.userDataDir) THEN createUserDataDir(b, io.mkdir)
             ELSE [status |-> "ok", value |-> cliOptions.userDataDir, dirs |-> dirs]
  IN IF port.status = "error"
     THEN [status |-> "error", error |-> port.error, dirs |-> dirs, ports |-> ports]
     ELSE IF dir.status = "error"
     THEN [status |-> "error", error |-> dir.error, dirs |-> dirs, ports |-> port.ports]
     ELSE [status |-> "ok",
           value |-> Obj([
             browser |-> Obj([
               browserName |-> b.browserName,
               userDataDir |-> dir.value,
               launchOptions |-> Obj(withPort),
               contextOptions |-> contextOptions,
               cdpEndpoint |-> cliOptions.cdpEndpoint]),
             server |-> Obj([port |-> cliOptions.port, host |-> cliOptions.host]),
             capabilities |-> ParseCaps(cliOptions.caps),
             vision |-> Bool(Truthy(cliOptions.vision))]),
           dirs |-> dir.dirs,
           ports |-> port.ports]

-----------------------------------------------------------------------------
(* resolveConfig *)

\* the CLI overrides are built before the config file is loaded
resolveConfig_cliFirst(cliOptions, io) ==
  LET cliOverrides == configFromCLIOptions(cliOptions, io)
      config == loadConfig(cliOptions.config)
  IN IF cliOverrides.status = "error"
     THEN [status |-> "error", error |-> cliOverrides.error,
           dirs |-> cliOverrides.dirs, ports |-> cliOverrides.ports]
     ELSE IF config.status = "error"
     THEN [status |-> "error", error |-> config.error,
           dirs |-> cliOverrides.dirs, ports |-> cliOverrides.ports]
     ELSE IF Nullish(config.value)
     THEN [status |-> "error", error |-> "TypeError",
           dirs |-> cliOverrides.dirs, ports |-> cliOverrides.ports]
     ELSE [status |-> "ok",
           value |-> mergeConfig(defaultConfig, mergeConfig(config.value, cliOverrides.value)),
           dirs |-> cliOverrides.dirs, ports |-> cliOverrides.ports]

\* each await that throws ends the function with that error; reading .browser of a
\* config file that parsed to null throws a TypeError inside mergeConfig
resolveConfig(cliOptions, io) ==
  LET config == loadConfig(cliOptions.config)
      cliOverrides == configFromCLIOptions(cliOptions, io)
  IN IF config.status = "error"
     THEN [status |-> "error", error |-> config.error, dirs |-> dirs, ports |-> ports]
     ELSE IF cliOverrides.status = "error"
     THEN [status |-> "error", error |-> cliOverrides.error,
           dirs |-> cliOverrides.dirs, ports |-> cliOverrides.ports]
     ELSE IF Nullish(config.value)
     THEN [status |-> "error", error |-> "TypeError",
           dirs |-> cliOverrides.dirs, ports |-> cliOverrides.ports]
     ELSE [status |-> "ok",
           value |-> mergeConfig(defaultConfig, mergeConfig(config.value, cliOverrides.value)),
           dirs |-> cliOverrides.dirs, ports |-> cliOverrides.ports]

-----------------------------------------------------------------------------
(* the tool registries and createServer *)

\* the capability tag of the tools of a tool module
CapabilityOf(module) ==
  IF module \in {"common", "dialogs", "snapshot", "screen"} THEN Str("core") ELSE Str(module)

\* a tool module that is a factory: module(captureSnapshot) builds its own tools
ToolFactory(module, captureSnapshot) ==
  << [module |-> module,
      variant |-> IF captureSnapshot THEN "snapshot" ELSE "screenshot",
      capability |-> CapabilityOf(module)] >>

\* a tool module that is a list: the same tools wherever it is spread
ToolList(module) ==
  << [module |-> module, variant |-> "shared", capability |-> CapabilityOf(module)] >>

snapshotTools ==
  ToolFactory("common", TRUE) \o ToolList("console") \o ToolFactory("dialogs", TRUE)
    \o ToolFactory("files", TRUE) \o ToolList("install") \o ToolFactory("keyboard", TRUE)
    \o ToolFactory("navigate", TRUE) \o ToolList("network") \o ToolList("pdf")
    \o ToolList("snapshot") \o ToolFactory("tabs", TRUE)

screenshotTools ==
  ToolFactory("common", FALSE) \o ToolList("console") \o ToolFactory("dialogs", FALSE)
    \o ToolFactory("files", FALSE) \o ToolList("install") \o ToolFactory("keyboard", FALSE)
    \o ToolFactory("navigate", FALSE) \o ToolList("network") \o ToolList("pdf")
    \o ToolList("screen") \o ToolFactory("tabs", FALSE)

\* Array.prototype.includes
Includes(array, v) == \E i \in 1..Len(array.items) : array.items[i] = v

\* the 'core' test left out of the filter
createServer_noCore(config) ==
  LET cfg == IF config = Undefined THEN Obj(NoProps) ELSE config
      allTools == IF Truthy(Get(cfg, "vision")) THEN screenshotTools ELSE snapshotTools
      Keep(tool) == \/ ~Truthy(Get(cfg, "capabilities"))
                    \/ Includes(Get(cfg, "capabilities"), tool.capability)
  IN SelectSeq(allTools, Keep)

\* the two registries taken the wrong way round
createServer_swapped(config) ==
  LET cfg == IF config = Undefined THEN Obj(NoProps) ELSE config
      allTools == IF Truthy(Get(cfg, "vision")) THEN snapshotTools ELSE screenshotTools
      Keep(tool) == \/ ~Truthy(Get(cfg, "capabilities"))
                    \/ tool.capability = Str("core")
                    \/ Includes(Get(cfg, "capabilities"), tool.capability)
  IN SelectSeq(allTools, Keep)

\* the tools handed to createServerWithTools
createServer(config) ==
  LET cfg == IF config = Undefined THEN Obj(NoProps) ELSE config
      allTools == IF Truthy(Get(cfg, "vision")) THEN screenshotTools ELSE snapshotTools
      Keep(tool) == \/ ~Truthy(Get(cfg, "capabilities"))
                    \/ tool.capability = Str("core")
                    \/ Includes(Get(cfg, "capabilities"), tool.capability)
  IN SelectSeq(allTools, Keep)

-----------------------------------------------------------------------------
(* inputs *)

\* an object literal's property that may be left out
Absent == [type |-> "absent"]

Opt(k, v) == IF v = Absent THEN NoProps ELSE [x \in {k} |-> v]

BrowserTokens ==
  {Undefined, Str("chrome"), Str("msedge"), Str("firefox"), Str("webkit"), Str("not-a-browser")}

CapsOptions ==
  {Undefined, Caps(<<"core", ",", "tabs">>), Caps(<<" ", "console", " ", ",", "pdf">>)}

ConfigOptions == {Undefined} \cup { Path(p) : p \in DOMAIN Files }

\* the options the argument parser hands over; an option that was not given is
\* undefined. --device, --port and --host are varied on their own.
CLIOptionSets ==
  [ browser : BrowserTokens,
    caps : CapsOptions,
    cdpEndpoint : {Undefined, Str("ws://cli")},
    executablePath : {Undefined, Path(<<"opt", "cli-chrome">>)},
    headless : {Undefined, Bool(TRUE), Bool(FALSE)},
    device : {Undefined},
    userDataDir : {Undefined, Path(<<"data">>)},
    port : {Undefined},
    host : {Undefined},
    vision : {Undefined, Bool(TRUE)},
    config : ConfigOptions ]
  \cup
  [ browser : {Undefined, Str("firefox")},
    caps : {Undefined},
    cdpEndpoint : {Undefined},
    executablePath : {Undefined},
    headless : {Undefined},
    device : {Str("iPhone 15"), Str("no such device")},
    userDataDir : {Undefined},
    port : {Undefined, Num(8931)},
    host : {Undefined, Str("localhost")},
    vision : {Undefined},
    config : {Undefined, Path(<<"launch.json">>)} ]

\* the system calls a run makes: listen(0) only for chromium, mkdir only when no
\* --user-data-dir is given
IOOutcomes(cliOptions) ==
  [ listen : IF ReservesPort(BrowserOf(cliOptions.browser).browserName)
             THEN ListenOutcomes ELSE {Ok(Undefined)},
    mkdir : IF Nullish(cliOptions.userDataDir) THEN BOOLEAN ELSE {TRUE} ]

\* configuration fragments handed to mergeConfig
LaunchOptionBags ==
  { ObjectLiteral(<<Opt("headless", h), Opt("executablePath", e), Opt("assistantMode", a)>>) :
      h \in {Absent, Undefined, Bool(TRUE)},
      e \in {Absent, Undefined, Path(<<"opt", "a">>), Path(<<"opt", "b">>)},
      a \in {Absent, Bool(FALSE)} }

ContextOptionBags ==
  { NoProps, [viewport |-> Null], [viewport |-> Null, isMobile |-> Bool(TRUE)] }

Fragments ==
  {Obj(NoProps)} \cup
  { Obj([browser |-> Obj(ObjectLiteral(<<Opt("launchOptions", l), Opt("contextOptions", c)>>))]) :
      l \in {Absent} \cup { Obj(bag) : bag \in LaunchOptionBags },
      c \in {Absent, Undefined} \cup { Obj(bag) : bag \in ContextOptionBags } }

MaxCaps == 2

CapabilityTokens == {Str("core"), Str("console"), Str("network"), Str("tabs"), Str("pdf"), Str("")}

RECURSIVE SeqsUpTo(_, _)
SeqsUpTo(S, n) ==
  IF n = 0 THEN {<<>>}
  ELSE LET shorter == SeqsUpTo(S, n - 1)
       IN shorter \cup { Append(q, x) : q \in shorter, x \in S }

ServerConfigs ==
  {Undefined} \cup
  { Obj(ObjectLiteral(<<Opt("vision", v), Opt("capabilities", c)>>)) :
      v \in {Absent, Bool(TRUE), Bool(FALSE)},
      c \in {Absent} \cup { Arr(q) : q \in SeqsUpTo(CapabilityTokens, MaxCaps) } }

MaxCalls == 2

ProfileOptions ==
  [ browserName : {Str("chromium"), Str("firefox"), Str("webkit")},
    channel : {Undefined, Str("chrome"), Str("msedge"), Str("chromium")} ]

-----------------------------------------------------------------------------
(* the state machine *)

Init ==
  /\ process \in Environments
  /\ dirs \in { {}, {<<"data">>} }
  /\ ports = 0
  /\ call = [op |-> "start"]
  /\ profileLog = <<>>

\* the process resolves its configuration once, at startup
ResolveConfig(cliOptions, io) ==
  /\ call.op = "start"
  /\ LET r == resolveConfig(cliOptions, io)
     IN /\ call' = [op |-> "resolveConfig", cliOptions |-> cliOptions, io |-> io,
                    status |-> r.status,
                    config |-> IF r.status = "ok" THEN r.value ELSE Undefined,
                    dirsBefore |-> dirs, portsBefore |-> ports]
        /\ dirs' = r.dirs
        /\ ports' = r.ports
  /\ UNCHANGED <<process, profileLog>>

MergeConfig(base, overrides) ==
  /\ call.op = "start"
  /\ call' = [op |-> "mergeConfig", base |-> base, overrides |-> overrides,
              result |-> mergeConfig(base, overrides)]
  /\ UNCHANGED <<process, dirs, ports, profileLog>>

CreateServer(config) ==
  /\ call.op = "start"
  /\ call' = [op |-> "createServer", config |-> config, tools |-> createServer(config)]
  /\ UNCHANGED <<process, dirs, ports, profileLog>>

CreateUserDataDir(options, ioOk) ==
  /\ Len(profileLog) < MaxCalls
  /\ LET r == createUserDataDir(options, ioOk)
     IN /\ profileLog' = Append(profileLog,
                           [options |-> options, status |-> r.status,
                            path |-> IF r.status = "ok" THEN r.value ELSE Undefined,
                            existed |-> r.status = "ok" /\ r.value.path \in dirs])
        /\ dirs' = IF r.status = "ok" THEN r.dirs ELSE dirs
  /\ UNCHANGED <<process, ports, call>>

Next ==
  /\ call.op = "start"
  /\ \E cliOptions \in CLIOptionSets : \E io \in IOOutcomes(cliOptions) : ResolveConfig(cliOptions, io)

Spec == Init /\ [][Next]_vars

NextMerge ==
  /\ call.op = "start"
  /\ \E base \in Fragments, overrides \in Fragments : MergeConfig(base, overrides)

SpecMerge == Init /\ [][NextMerge]_vars

NextServer ==
  /\ call.op = "start"
  /\ \E config \in ServerConfigs : CreateServer(config)

SpecServer == Init /\ [][NextServer]_vars

NextProfile ==
  /\ Len(profileLog) < MaxCalls
  /\ \E options \in ProfileOptions, ioOk \in BOOLEAN : CreateUserDataDir(options, ioOk)

SpecProfile == Init /\ [][NextProfile]_vars

\* mergeConfig on its own and inside resolveConfig
NextMarker == NextMerge \/ Next

SpecMarker == Init /\ [][NextMarker]_vars

-----------------------------------------------------------------------------
(* what the properties read *)

LaunchOptionsOf(config) == Get(Get(config, "browser"), "launchOptions")

ContextOptionsOf(config) == Get(Get(config, "browser"), "contextOptions")

Resolved == call.op = "resolveConfig" /\ call.status = "ok"

Failed == call.op = "resolveConfig" /\ call.status = "error"

\* the fragment the config file of the last resolveConfig call holds
FileFragment == loadConfig(call.cliOptions.config).value

\* the scalar fields of a Config, each with the CLI option that sets it
ScalarFields ==
  {"headless", "executablePath", "cdpEndpoint", "vision", "capabilities", "browserName", "userDataDir"}

Field(config, f) ==
  CASE f \in {"headless", "executablePath"} -> Get(LaunchOptionsOf(config), f)
    [] f \in {"cdpEndpoint", "browserName", "userDataDir"} -> Get(Get(config, "browser"), f)
    [] OTHER -> Get(config, f)

CliOption(o, f) ==
  CASE f = "capabilities" -> o.caps
    [] f = "browserName" -> o.browser
    [] OTHER -> o[f]

RecognizedTokens ==
  { Str(c) : c \in ChromiumChannels } \cup {Str("firefox"), Str("webkit")}

Range(q) == { q[i] : i \in 1..Len(q) }

-----------------------------------------------------------------------------
(* C1 *)

\* C1: every scalar field of the resolved Config holds the CLI value if the CLI
\* option was given, otherwise the value the config file defines, otherwise the
\* value defaultConfig defines.
Precedence ==
  Resolved =>
    \A f \in ScalarFields :
      LET o == call.cliOptions
          given == CliOption(o, f) # Undefined
          cli == CASE f = "capabilities" -> ParseCaps(o.caps)
                   [] f = "browserName" -> BrowserOf(o.browser).browserName
                   [] f = "vision" -> Bool(Truthy(o.vision))
                   [] OTHER -> o[f]
      IN Field(call.config, f) =
           IF given THEN cli
           ELSE IF Field(FileFragment, f) # Undefined THEN Field(FileFragment, f)
           ELSE Field(defaultConfig, f)

-----------------------------------------------------------------------------
(* C2 *)

\* C2: the result of mergeConfig, and so every Config resolveConfig returns, has
\* browser.launchOptions.assistantMode = true, whatever the inputs set it to.
ForcedMarker ==
  /\ call.op = "mergeConfig" => Get(LaunchOptionsOf(call.result), "assistantMode") = Bool(TRUE)
  /\ Resolved => Get(LaunchOptionsOf(call.config), "assistantMode") = Bool(TRUE)

ForcedMarkerWitness ==
  \/ /\ call.op = "mergeConfig"
     /\ Get(LaunchOptionsOf(call.overrides), "assistantMode") = Bool(FALSE)
     /\ Get(LaunchOptionsOf(call.result), "assistantMode") = Bool(TRUE)
  \/ /\ Resolved
     /\ Get(LaunchOptionsOf(FileFragment), "assistantMode") = Bool(FALSE)
     /\ Get(LaunchOptionsOf(call.config), "assistantMode") = Bool(TRUE)

-----------------------------------------------------------------------------
(* C3 *)

\* C3: mergeConfig keeps every key of base.browser.launchOptions and of
\* base.browser.contextOptions that overrides does not set (the forced marker
\* assistantMode aside), with base's value.
NestedMergeIsolation ==
  call.op = "mergeConfig" =>
    /\ \A k \in DOMAIN Spread(LaunchOptionsOf(call.base)) \ {"assistantMode"} :
         Get(LaunchOptionsOf(call.overrides), k) = Undefined
           => Get(LaunchOptionsOf(call.result), k) = Get(LaunchOptionsOf(call.base), k)
    /\ \A k \in DOMAIN Spread(ContextOptionsOf(call.base)) :
         Get(ContextOptionsOf(call.overrides), k) = Undefined
           => Get(ContextOptionsOf(call.result), k) = Get(ContextOptionsOf(call.base), k)

-----------------------------------------------------------------------------
(* C4 *)

SelectedRegistry == IF Truthy(Get(call.config, "vision")) THEN screenshotTools ELSE snapshotTools

OtherRegistry == IF Truthy(Get(call.config, "vision")) THEN snapshotTools ELSE screenshotTools

\* the place of a tool in a registry (the registries hold no tool twice)
PlaceIn(registry, tool) == CHOOSE i \in 1..Len(registry) : registry[i] = tool

\* C4: createServer exposes exactly the tools of the chosen registry whose capability
\* is 'core' or a member of config.capabilities, in registry order; every tool of
\* the registry when config.capabilities is undefined.
CapabilityGating ==
  call.op = "createServer" =>
    LET caps == Get(call.config, "capabilities")
    IN /\ \A t \in Range(SelectedRegistry) :
            t \in Range(call.tools) <=>
              \/ caps = Undefined
              \/ t.capability = Str("core")
              \/ \E i \in 1..Len(caps.items) : caps.items[i] = t.capability
       /\ Range(call.tools) \subseteq Range(SelectedRegistry)
       /\ \A i, j \in 1..Len(call.tools) :
            i < j => PlaceIn(SelectedRegistry, call.tools[i]) < PlaceIn(SelectedRegistry, call.tools[j])
       /\ caps = Undefined => call.tools = SelectedRegistry

CapabilityGatingWitness ==
  /\ call.op = "createServer"
  /\ Get(call.config, "capabilities") = Arr(<<Str("console")>>)
  /\ { t.capability : t \in Range(call.tools) } = {Str("core"), Str("console")}
  /\ \E t \in Range(SelectedRegistry) : t.capability = Str("network")

-----------------------------------------------------------------------------
(* C5 *)

\* C5 as stated: with vision = true no exposed tool is a tool of snapshotTools, with
\* vision false or absent none is a tool of screenshotTools, and the exposed tools
\* are a strict subset of exactly one of the two registries.
VisionExclusivityAsStated ==
  call.op = "createServer" =>
    /\ Range(call.tools) \cap Range(OtherRegistry) = {}
    /\ Range(call.tools) \subseteq Range(SelectedRegistry)
    /\ Range(call.tools) # Range(SelectedRegistry)
    /\ ~(Range(call.tools) \subseteq Range(OtherRegistry))

\* C5, amended: the exposed tools all come from the registry config.vision selects
\* (screenshotTools when it is true, snapshotTools otherwise), so no tool that only
\* the other registry holds is exposed; the tools both registries hold (console,
\* install, network, pdf) are exposed in either mode.
VisionExclusivity ==
  call.op = "createServer" =>
    /\ Range(call.tools) \subseteq Range(SelectedRegistry)
    /\ Range(call.tools) \cap (Range(OtherRegistry) \ Range(SelectedRegistry)) = {}
    /\ \A t \in Range(call.tools) :
         t \in Range(OtherRegistry) => t.variant = "shared"

VisionExclusivityWitness ==
  /\ call.op = "createServer"
  /\ Get(call.config, "vision") = Bool(TRUE)
  /\ \E t \in Range(call.tools) : t.variant = "screenshot"
  /\ \E t \in Range(call.tools) : t \in Range(snapshotTools)

-----------------------------------------------------------------------------
(* C6 *)

BrowserNames == {Str("chromium"), Str("firefox"), Str("webkit")}

\* the config file of the last resolveConfig call can be read and parsed
FileLoads ==
  \/ call.cliOptions.config = Undefined
  \/ Files[call.cliOptions.config.path].kind = "json"

SupportedPlatform == process.platform \in {"linux", "darwin", "win32"}

\* C6: the resolved browser.browserName is chromium, firefox or webkit whatever the
\* CLI token and the config file are; an unrecognized or absent token resolves to
\* chromium with channel chrome, and does not make resolveConfig fail.
BrowserIdentity ==
  call.op = "resolveConfig" =>
    LET o == call.cliOptions
        unrecognized == o.browser \notin RecognizedTokens
    IN /\ Resolved => Field(call.config, "browserName") \in BrowserNames
       /\ Resolved /\ unrecognized =>
            /\ Field(call.config, "browserName") = Str("chromium")
            /\ Get(LaunchOptionsOf(call.config), "channel") = Str("chrome")
       /\ /\ unrecognized
          /\ FileLoads /\ FileFragment # Null
          /\ call.io.listen.status = "ok"
          /\ o.userDataDir # Undefined \/ (call.io.mkdir /\ SupportedPlatform)
          => Resolved

BrowserIdentityWitness ==
  /\ Resolved
  /\ call.cliOptions.browser = Str("not-a-browser")
  /\ Field(FileFragment, "browserName") = Str("firefox")
  /\ Field(call.config, "browserName") = Str("chromium")
  /\ Get(LaunchOptionsOf(call.config), "channel") = Str("chrome")

-----------------------------------------------------------------------------
(* C7 *)

\* the run of C7: no config file, --browser firefox or webkit, --headless, --caps core,tabs
NonChromiumRun ==
  /\ call.op = "resolveConfig"
  /\ call.cliOptions.config = Undefined
  /\ call.cliOptions.browser \in {Str("firefox"), Str("webkit")}
  /\ call.cliOptions.headless = Bool(TRUE)
  /\ call.cliOptions.caps = Caps(<<"core", ",", "tabs">>)

\* C7: with no config file, a CLI browser token of firefox or webkit, headless = true
\* and caps = 'core,tabs', no port is allocated and the resolved Config has that
\* browserName, no launchOptions.channel, no reserved port, headless = true,
\* assistantMode = true and capabilities = ['core', 'tabs'].
NonChromiumResolution ==
  NonChromiumRun =>
    /\ ports = call.portsBefore
    /\ Resolved =>
         /\ Field(call.config, "browserName") = call.cliOptions.browser
         /\ Get(LaunchOptionsOf(call.config), "channel") = Undefined
         /\ ~Has(LaunchOptionsOf(call.config), "webSocketPort")
         /\ Get(LaunchOptionsOf(call.config), "headless") = Bool(TRUE)
         /\ Get(LaunchOptionsOf(call.config), "assistantMode") = Bool(TRUE)
         /\ Get(call.config, "capabilities") = Arr(<<Str("core"), Str("tabs")>>)

NonChromiumResolutionWitness ==
  /\ NonChromiumRun
  /\ Resolved
  /\ call.cliOptions.browser = Str("firefox")
  /\ Get(LaunchOptionsOf(defaultConfig), "channel") = Str("chrome")
  /\ Has(LaunchOptionsOf(call.config), "channel")

-----------------------------------------------------------------------------
(* C8 *)

\* C8: a failing step (config file given but unreadable or unparsable, listen
\* failing, the platform unsupported, mkdir failing) makes resolveConfig fail, and a
\* failed resolveConfig returns no Config; an absent config path is no failure; a
\* config file that fails to load fails before any port is allocated or any
\* directory is created.
AllOrNothing ==
  call.op = "resolveConfig" =>
    LET o == call.cliOptions
        reserves == BrowserOf(o.browser).browserName = Str("chromium")
        derives == o.userDataDir = Undefined
    IN /\ Failed => call.config = Undefined
       /\ ~FileLoads => /\ Failed
                        /\ dirs = call.dirsBefore
                        /\ ports = call.portsBefore
       /\ reserves /\ call.io.listen.status = "error" => Failed
       /\ derives /\ ~SupportedPlatform => Failed
       /\ derives /\ ~call.io.mkdir /\ Resolved =>
            Field(call.config, "userDataDir").path \in call.dirsBefore
       /\ /\ o.config = Undefined
          /\ ~reserves \/ call.io.listen.status = "ok"
          /\ ~derives \/ (SupportedPlatform /\ call.io.mkdir)
          => Resolved

AllOrNothingWitness ==
  /\ Failed
  /\ call.cliOptions.config = Path(<<"broken.json">>)
  /\ call.cliOptions.browser = Undefined
  /\ call.cliOptions.userDataDir = Undefined
  /\ call.io.listen.status = "ok"
  /\ call.io.mkdir
  /\ SupportedPlatform
  /\ ports = call.portsBefore
  /\ dirs = call.dirsBefore

-----------------------------------------------------------------------------
(* C9 *)

Calls == 1..Len(profileLog)

\* the options configFromCLIOptions can hand to createUserDataDir
CliProfileOptions ==
  { BrowserOf(token) : token \in RecognizedTokens \cup {Undefined, Str("not-a-browser")} }

\* C9 as stated: createUserDataDir maps any two distinct (browserName, channel)
\* pairs to distinct paths and identical pairs to the identical path, and a repeated
\* call does not fail on the directory that exists by then.
ProfileUniquenessAsStated ==
  \A i, j \in Calls :
    LET a == profileLog[i]
        b == profileLog[j]
    IN /\ a.status = "ok" /\ b.status = "ok" =>
            (a.options = b.options <=> a.path = b.path)
       /\ i < j /\ a.options = b.options /\ a.status = "ok" => b.status = "ok"

\* C9, amended: the pairs configFromCLIOptions can produce (chromium with one of the
\* nine channels, firefox and webkit with no channel) are mapped to distinct paths;
\* for every pair, identical inputs give the identical path, and a repeated call
\* does not fail on the directory that exists by then.
ProfileUniqueness ==
  \A i, j \in Calls :
    LET a == profileLog[i]
        b == profileLog[j]
    IN /\ a.status = "ok" /\ b.status = "ok" =>
            /\ a.options = b.options => a.path = b.path
            /\ a.options \in CliProfileOptions /\ b.options \in CliProfileOptions
                 /\ a.options # b.options => a.path # b.path
       /\ i < j /\ a.options = b.options /\ a.status = "ok" =>
            b.status = "ok" /\ b.existed

ProfileUniquenessWitness ==
  /\ Len(profileLog) >= 2
  /\ profileLog[1].status = "ok"
  /\ profileLog[2].status = "ok"
  /\ profileLog[1].options = [browserName |-> Str("chromium"), channel |-> Str("chrome")]
  /\ profileLog[2].options = [browserName |-> Str("chromium"), channel |-> Str("msedge")]
  /\ profileLog[1].path # profileLog[2].path

-----------------------------------------------------------------------------
(* C10 *)

\* C10 as stated: whenever resolveConfig succeeds, the resolved browser.userDataDir
\* is a directory that exists, derived or given with --user-data-dir alike.
UserDataDirExistsAsStated ==
  Resolved => Field(call.config, "userDataDir").path \in dirs

\* C10, amended: when resolveConfig succeeds and no --user-data-dir was given, the
\* resolved browser.userDataDir is a directory that exists (created on demand); a
\* --user-data-dir value is passed through as it is, neither created nor checked.
UserDataDirExists ==
  Resolved =>
    IF call.cliOptions.userDataDir = Undefined
    THEN Field(call.config, "userDataDir").path \in dirs
    ELSE /\ Field(call.config, "userDataDir") = call.cliOptions.userDataDir
         /\ dirs = call.dirsBefore

UserDataDirExistsWitness ==
  /\ Resolved
  /\ call.cliOptions.userDataDir = Undefined
  /\ Field(call.config, "userDataDir").path \notin call.dirsBefore
  /\ Field(call.config, "userDataDir").path \in dirs

====
